---------------------------- MODULE Spec2Model ----------------------------
(***************************************************************************)
(* Model of Docker/scripts/qnn_to_waterdrop_model_config.py: the datatype  *)
(* normaliser (Dtype), the runtime normaliser (QNNRuntime), the metadata   *)
(* extractor and config emitter (QNNModelInfo) and the pipeline (main).    *)
(*                                                                         *)
(* Python strings are sequences of one-character strings, so that upper(), *)
(* basename, splitext, dirname, join and normpath are computed and not     *)
(* looked up.  Python's None is the model value None.                      *)
(***************************************************************************)
EXTENDS Integers, Sequences, FiniteSets, TLC

None == "None"

(***************************************************************************)
(* Bounds of the model.                                                    *)
(***************************************************************************)
\* tensors declared by one metadata document
MaxTensors == 2
\* runtimes in one runtime list passed to to_json
MaxRuntimes == 2

(***************************************************************************)
(* Strings.                                                                *)
(***************************************************************************)
Lower == <<"a","b","c","d","e","f","g","h","i","j","k","l","m",
           "n","o","p","q","r","s","t","u","v","w","x","y","z">>
Upper == <<"A","B","C","D","E","F","G","H","I","J","K","L","M",
           "N","O","P","Q","R","S","T","U","V","W","X","Y","Z">>

\* str.upper() on one character: a lower-case letter goes to its capital,
\* every other character is kept
UpperChar(c) ==
    IF \E i \in 1..Len(Lower) : Lower[i] = c
    THEN Upper[CHOOSE i \in 1..Len(Lower) : Lower[i] = c]
    ELSE c

\* str.upper()
StrUpper(s) == [i \in 1..Len(s) |-> UpperChar(s[i])]

\* s.rfind(c) + 1: the 1-based place of the last c in s, 0 when there is none
RFind(s, c) ==
    LET hits == {i \in 1..Len(s) : s[i] = c}
    IN  IF hits = {} THEN 0 ELSE CHOOSE i \in hits : \A j \in hits : j <= i

StartsWith(s, p) == Len(p) <= Len(s) /\ SubSeq(s, 1, Len(p)) = p

\* s.rstrip(c)
RECURSIVE RStrip(_, _)
RStrip(s, c) ==
    IF s # <<>> /\ s[Len(s)] = c THEN RStrip(SubSeq(s, 1, Len(s) - 1), c) ELSE s

\* s.split(c): the pieces of s between the occurrences of c
RECURSIVE Split(_, _)
Split(s, c) ==
    LET hits == {i \in 1..Len(s) : s[i] = c}
    IN  IF hits = {} THEN <<s>>
        ELSE LET i == CHOOSE k \in hits : \A j \in hits : k <= j
             IN  <<SubSeq(s, 1, i - 1)>> \o Split(SubSeq(s, i + 1, Len(s)), c)

\* c.join(parts)
RECURSIVE Join(_, _)
Join(parts, c) ==
    IF parts = <<>> THEN <<>>
    ELSE IF Len(parts) = 1 THEN parts[1]
    ELSE parts[1] \o <<c>> \o Join(Tail(parts), c)

(***************************************************************************)
(* os.path (posixpath), as the script uses it.                             *)
(***************************************************************************)
\* os.path.basename
PathBasename(p) == SubSeq(p, RFind(p, "/") + 1, Len(p))

\* os.path.dirname
PathDirname(p) ==
    LET head == SubSeq(p, 1, RFind(p, "/"))
    IN  IF head # <<>> /\ (\E i \in 1..Len(head) : head[i] # "/")
        THEN RStrip(head, "/")
        ELSE head

\* os.path.splitext: the extension starts at the last dot of the last
\* component, unless only dots precede it there
PathSplitext(p) ==
    LET sepIndex == RFind(p, "/")
        dotIndex == RFind(p, ".")
    IN  IF dotIndex > sepIndex
           /\ \E k \in (sepIndex + 1)..(dotIndex - 1) : p[k] # "."
        THEN <<SubSeq(p, 1, dotIndex - 1), SubSeq(p, dotIndex, Len(p))>>
        ELSE <<p, <<>>>>

\* os.path.join of two components
PathJoin2(a, b) ==
    IF StartsWith(b, <<"/">>) THEN b
    ELSE IF a = <<>> \/ a[Len(a)] = "/" THEN a \o b
    ELSE a \o <<"/">> \o b

\* os.path.join(a, b, c)
PathJoin3(a, b, c) == PathJoin2(PathJoin2(a, b), c)

\* the component list of normpath: "" and "." are dropped, ".." removes the
\* component before it (kept when there is none to remove in a relative path)
RECURSIVE NormComps(_, _, _)
NormComps(comps, acc, rooted) ==
    IF comps = <<>> THEN acc
    ELSE LET comp == Head(comps)
             rest == Tail(comps)
         IN  IF comp = <<>> \/ comp = <<".">> THEN NormComps(rest, acc, rooted)
             ELSE IF comp # <<".", ".">>
                     \/ (~rooted /\ acc = <<>>)
                     \/ (acc # <<>> /\ acc[Len(acc)] = <<".", ".">>)
                  THEN NormComps(rest, Append(acc, comp), rooted)
             ELSE IF acc # <<>>
                  THEN NormComps(rest, SubSeq(acc, 1, Len(acc) - 1), rooted)
             ELSE NormComps(rest, acc, rooted)

\* os.path.normpath
PathNormpath(p) ==
    IF p = <<>> THEN <<".">>
    ELSE LET slashes == IF ~StartsWith(p, <<"/">>) THEN 0
                        ELSE IF StartsWith(p, <<"/", "/">>)
                                /\ ~StartsWith(p, <<"/", "/", "/">>) THEN 2
                        ELSE 1
             body == Join(NormComps(Split(p, "/"), <<>>, slashes > 0), "/")
             full == [i \in 1..slashes |-> "/"] \o body
         IN  IF full = <<>> THEN <<".">> ELSE full

\* os.getcwd() of the process
Cwd == <<"/", "w">>

\* os.path.abspath
PathAbspath(p) ==
    IF StartsWith(p, <<"/">>) THEN PathNormpath(p)
    ELSE PathNormpath(PathJoin2(Cwd, p))

\* get_file_basename(filename, remove_ext)
get_file_basename(filename, remove_ext) ==
    LET basename == PathBasename(filename)
    IN  IF ~remove_ext THEN basename ELSE PathSplitext(basename)[1]

(***************************************************************************)
(* String constants of the script.                                         *)
(***************************************************************************)
s_fp32 == <<"f","p","3","2">>
s_fp16 == <<"f","p","1","6">>
s_fp64 == <<"f","p","6","4">>
s_float32 == <<"f","l","o","a","t","3","2">>
s_float16 == <<"f","l","o","a","t","1","6">>
s_float64 == <<"f","l","o","a","t","6","4">>
s_str == <<"s","t","r">>
s_string == <<"s","t","r","i","n","g">>
s_unknown == <<"u","n","k","n","o","w","n">>
s_int8 == <<"i","n","t","8">>
s_f4 == <<"f","4">>
s_U0 == <<"<","U","0">>
s_FP32 == <<"F","P","3","2">>
s_FP16 == <<"F","P","1","6">>
s_FP64 == <<"F","P","6","4">>
s_qnn == <<"q","n","n">>
s_HTP == <<"H","T","P">>
s_CPU == <<"C","P","U">>
s_GPU == <<"G","P","U">>
s_cpu == <<"c","p","u">>
s_HTP_FIXED8_TF == <<"H","T","P","_","F","I","X","E","D","8","_","T","F">>
s_CPU_FLOAT32 == <<"C","P","U","_","F","L","O","A","T","3","2">>
s_GPU_FLOAT16 == <<"G","P","U","_","F","L","O","A","T","1","6">>
s_waterdrop == <<"w","a","t","e","r","d","r","o","p">>
s_model_json == <<"m","o","d","e","l",".","j","s","o","n">>
s_0 == <<"0">>

(***************************************************************************)
(* Python values.  A str is PyStr(chars); the class np.float32 is          *)
(* NpType(name); an np.dtype instance is NpDtypeObj(name).  An Optional    *)
(* argument is a sequence of at most one element: <<>> is None.            *)
(***************************************************************************)
PyStr(s) == [t |-> "str", v |-> s]
NpType(n) == [t |-> "nptype", v |-> n]
NpDtypeObj(n) == [t |-> "npdtype", v |-> n]

Returned(v) == [exc |-> None, val |-> v]
Raised(e) == [exc |-> e, val |-> <<>>]

(***************************************************************************)
(* numpy.dtype(x), the library call of Dtype.__init__.  A type class or a  *)
(* spelling numpy knows gives the dtype instance (whose str() is numpy's   *)
(* own name for it: 'f4' is float32, 'str' is <U0).  A spelling numpy does *)
(* not know raises TypeError.  A spelling with a comma is parsed as a      *)
(* comma-separated format list, and a character that no format may hold    *)
(* makes that parser raise ValueError.                                     *)
(***************************************************************************)
NpKnown ==
    {<<s_float32, s_float32>>, <<s_float16, s_float16>>, <<s_float64, s_float64>>,
     <<s_int8, s_int8>>, <<s_f4, s_float32>>, <<s_str, s_U0>>}

FormatChars ==
    {Lower[i] : i \in 1..Len(Lower)} \cup {Upper[i] : i \in 1..Len(Upper)}
    \cup {"0","1","2","3","4","5","6","7","8","9"}
    \cup {".", "?", "<", ">", "|", "=", "(", ")", "[", "]", ",", " "}

NpDtype(x) ==
    IF x.t # "str" THEN Returned(NpDtypeObj(x.v))
    ELSE IF \E k \in NpKnown : k[1] = x.v
         THEN Returned(NpDtypeObj((CHOOSE k \in NpKnown : k[1] = x.v)[2]))
    ELSE IF (\E i \in 1..Len(x.v) : x.v[i] = ",")
            /\ (\E i \in 1..Len(x.v) : x.v[i] \notin FormatChars)
         THEN Raised("ValueError")
    ELSE Raised("TypeError")

(***************************************************************************)
(* class Dtype                                                             *)
(***************************************************************************)
\* lines 26-32: the alias rewriting of a str argument
DtypeRewrite(dtype) ==
    IF dtype.t # "str" THEN dtype
    ELSE IF dtype.v = s_fp32 THEN PyStr(s_float32)
    ELSE IF dtype.v = s_fp16 THEN PyStr(s_float16)
    ELSE IF dtype.v = s_fp64 THEN PyStr(s_float64)
    ELSE dtype

\* Dtype.__init__: the object (its field dtype), or the exception it raises
DtypeInit(dtype) ==
    LET d == DtypeRewrite(dtype)
        np == NpDtype(d)
    IN  IF np.exc \notin {None, "TypeError"} THEN Raised(np.exc)
        ELSE IF d.t = "str" /\ d.v \in {s_str, s_string}
             THEN Returned([dtype |-> PyStr(s_string)])
        ELSE IF np.exc = None THEN Returned([dtype |-> np.val])
        ELSE Returned([dtype |-> d])

\* Dtype.__str__
DtypeStr(self) == self.dtype.v

\* Dtype.short_str
DtypeShortStr(self) ==
    IF DtypeStr(self) = s_float32 THEN s_fp32
    ELSE IF DtypeStr(self) = s_float16 THEN s_fp16
    ELSE IF DtypeStr(self) = s_float64 THEN s_fp64
    ELSE DtypeStr(self)

\* Dtype.encoding_type
DtypeEncodingType(self) ==
    IF DtypeStr(self) = s_float32 THEN s_FP32
    ELSE IF DtypeStr(self) = s_float16 THEN s_FP16
    ELSE IF DtypeStr(self) = s_float64 THEN s_FP64
    ELSE DtypeStr(self)

(***************************************************************************)
(* class TensorInfo                                                        *)
(***************************************************************************)
\* TensorInfo.__init__: the object, or the exception Dtype raises
TensorInfoInit(name, shape, dtype) ==
    LET d == DtypeInit(dtype)
    IN  IF d.exc # None THEN Raised(d.exc)
        ELSE Returned([name |-> name, shape |-> shape, dtype |-> d.val,
                       doc_string |-> <<>>])

\* _tensor_to_dict
tensor_to_dict(t, alias_name) ==
    [name |-> t.name, shape |-> t.shape,
     encoding_type |-> DtypeEncodingType(t.dtype), alias_name |-> alias_name]

(***************************************************************************)
(* class QNNRuntime                                                        *)
(***************************************************************************)
RuntimeEnum == {s_HTP_FIXED8_TF, s_CPU_FLOAT32, s_GPU_FLOAT16}

\* QNNRuntimeInit with the upper-casing of line 84 left out
QNNRuntimeInit_case_sensitive(runtime) ==
    IF runtime \in RuntimeEnum THEN Returned(runtime)
    ELSE IF runtime = s_HTP THEN Returned(s_HTP_FIXED8_TF)
    ELSE IF runtime = s_CPU THEN Returned(s_CPU_FLOAT32)
    ELSE IF runtime = s_GPU THEN Returned(s_GPU_FLOAT16)
    ELSE Raised("ValueError")

\* QNNRuntime.__init__ followed by __str__: the normalised runtime, or the
\* exception
QNNRuntimeInit(runtime) ==
    LET up == StrUpper(runtime)
    IN  IF up \in RuntimeEnum THEN Returned(up)
        ELSE IF up = s_HTP THEN Returned(s_HTP_FIXED8_TF)
        ELSE IF up = s_CPU THEN Returned(s_CPU_FLOAT32)
        ELSE IF up = s_GPU THEN Returned(s_GPU_FLOAT16)
        ELSE Raised("ValueError")

(***************************************************************************)
(* The metadata document (the JSON file QNNModelInfo loads).  An ok        *)
(* document may lack 'model.cpp' or graph.tensors (an empty Optional);     *)
(* tensors are the entries of graph.tensors in declaration order.          *)
(***************************************************************************)
TensorNames == {"a", "b", "c"}
TensorTypes == {0, 1, 2}
DimsOf == [a |-> <<1, 3>>, b |-> <<1, 10>>, c |-> <<2>>]
\* a per-tensor datatype code declared by the metadata (the keys of
\* _DATATYPE_MAP); the script never reads it
DataTypeOf == [a |-> 562, b |-> 1032, c |-> 562]

TensorDescs ==
    {[name |-> n, type |-> t, dims |-> DimsOf[n], data_type |-> DataTypeOf[n]] :
        n \in TensorNames, t \in TensorTypes}

\* graph.tensors is a JSON object: the names are distinct
TensorSeqs ==
    UNION {{s \in [1..n -> TensorDescs] :
              \A i, j \in 1..n : i # j => s[i].name # s[j].name} :
           n \in 0..MaxTensors}

CppPaths ==
    {<<"/","x","/","f","o","o",".","c","p","p">>,
     <<"a",".","b","/",".","n",".","c">>,
     <<"d",".","e","/","n","e","t">>}

Docs ==
    {[status |-> st, cpp |-> <<>>, tensors |-> <<>>] :
        st \in {"unreadable", "malformed"}}
    \cup {[status |-> "ok", cpp |-> c, tensors |-> t] :
            c \in {<<>>} \cup {<<q>> : q \in CppPaths},
            t \in {<<>>} \cup {<<q>> : q \in TensorSeqs}}

(***************************************************************************)
(* class QNNModelInfo                                                      *)
(***************************************************************************)
\* QNNModelInfo.__init__ on a metadata file holding doc
QNNModelInfoInit(doc, qnn_model_file) ==
    IF doc.status = "unreadable" THEN Raised("FileNotFoundError")
    ELSE IF doc.status = "malformed" THEN Raised("JSONDecodeError")
    ELSE IF doc.cpp = <<>> THEN Raised("KeyError")
    ELSE Returned([model_path |-> qnn_model_file, model_info |-> doc,
                   model_name |-> get_file_basename(doc.cpp[1], TRUE)])

\* the loop of get_input_infos / get_output_infos over tensors.items()
RECURSIVE TensorsOfType(_, _)
TensorsOfType(tensors, type) ==
    IF tensors = <<>> THEN <<>>
    ELSE LET info == Head(tensors)
             rest == TensorsOfType(Tail(tensors), type)
         IN  IF info.type = type
             THEN <<TensorInfoInit(info.name, info.dims, NpType(s_float32)).val>>
                  \o rest
             ELSE rest

\* QNNModelInfo.get_input_infos
get_input_infos(self) ==
    IF self.model_info.tensors = <<>> THEN Raised("KeyError")
    ELSE Returned(TensorsOfType(self.model_info.tensors[1], 0))

\* get_output_infos selecting type 0, as get_input_infos does
get_output_infos_type0(self) ==
    IF self.model_info.tensors = <<>> THEN Raised("KeyError")
    ELSE Returned(TensorsOfType(self.model_info.tensors[1], 0))

\* QNNModelInfo.get_output_infos
get_output_infos(self) ==
    IF self.model_info.tensors = <<>> THEN Raised("KeyError")
    ELSE Returned(TensorsOfType(self.model_info.tensors[1], 1))

\* json.dumps(model, indent=4)
JsonDumps(model) == [kind |-> "text", indent |-> 4, doc |-> model]

\* lines 199-201: the runtime argument as a list, each element normalised
RuntimeList(runtime) == IF runtime.isstr THEN <<runtime.v>> ELSE runtime.l

\* NormalizedRuntimes checking the first runtime only
NormalizedRuntimes_first_only(runtime) ==
    [i \in 1..Len(RuntimeList(runtime)) |->
        IF i = 1 THEN QNNRuntimeInit(RuntimeList(runtime)[i])
        ELSE Returned(StrUpper(RuntimeList(runtime)[i]))]

NormalizedRuntimes(runtime) ==
    [i \in 1..Len(RuntimeList(runtime)) |-> QNNRuntimeInit(RuntimeList(runtime)[i])]

\* x or y, for an Optional str x
OrElse(x, y) == IF x # <<>> /\ x[1] # <<>> THEN x[1] ELSE y

\* TensorDicts pairing tensors and aliases as zip does: a short alias list
\* truncates the side
TensorDicts_truncating(infos, alias_names) ==
    LET aliases == IF alias_names = <<>>
                   THEN [i \in 1..Len(infos) |-> infos[i].name]
                   ELSE alias_names[1]
        n == IF Len(aliases) < Len(infos) THEN Len(aliases) ELSE Len(infos)
    IN  Returned([i \in 1..n |-> tensor_to_dict(infos[i], aliases[i])])

\* lines 187-198: one side's list of tensor dicts
TensorDicts(infos, alias_names) ==
    LET aliases == IF alias_names = <<>>
                   THEN [i \in 1..Len(infos) |-> infos[i].name]
                   ELSE alias_names[1]
    IN  IF Len(aliases) < Len(infos) THEN Raised("IndexError")
        ELSE Returned([i \in 1..Len(infos) |-> tensor_to_dict(infos[i], aliases[i])])

\* DictUpdate with the assembled keys winning over the caller's
DictUpdate_keep_assembled(model, custom) == model @@ custom

\* line 206: model.update(**custom_model_info)
DictUpdate(model, custom) == custom @@ model

\* to_json, lines 177-208: the serialised record, or the first exception
ToJsonAssemble(self, a) ==
    LET model_name == OrElse(a.model_name, self.model_name)
        path_to_zoo == OrElse(a.model_path,
                              get_file_basename(self.model_path, FALSE))
        input_infos == get_input_infos(self)
        output_infos == get_output_infos(self)
        inputs == TensorDicts(input_infos.val, a.input_alias_names)
        outputs == TensorDicts(output_infos.val, a.output_alias_names)
        runtimes == NormalizedRuntimes(a.runtime)
        model == [model_name |-> model_name,
                  path_to_zoo |-> path_to_zoo,
                  engine_type |-> s_qnn,
                  input |-> inputs.val,
                  output |-> outputs.val,
                  specific_config |->
                      [runtime_order |-> [i \in 1..Len(runtimes) |-> runtimes[i].val],
                       enable_dynamic_runtime |-> a.enable_dynamic_runtime]]
    IN  IF input_infos.exc # None THEN Raised(input_infos.exc)
        ELSE IF output_infos.exc # None THEN Raised(output_infos.exc)
        ELSE IF inputs.exc # None THEN Raised(inputs.exc)
        ELSE IF outputs.exc # None THEN Raised(outputs.exc)
        ELSE IF \E i \in 1..Len(runtimes) : runtimes[i].exc # None
             THEN Raised("ValueError")
        ELSE Returned(JsonDumps(DictUpdate(model, a.custom)))

\* WritesFile with the write left out
WritesFile_dropped(a) == a.output_filename # a.output_filename

\* line 209: if output_filename
WritesFile(a) == a.output_filename # <<>> /\ a.output_filename[1] # <<>>

(***************************************************************************)
(* The file system: a function from the paths that exist to what is there. *)
(***************************************************************************)
Dir == [kind |-> "dir"]
BinaryOf(path) == [kind |-> "bin", src |-> path]
Truncated == [kind |-> "empty"]

\* the directories os.makedirs(path, exist_ok=True) leaves: path and every
\* ancestor of it
Ancestors(path) ==
    {SubSeq(path, 1, i) : i \in {k \in 1..Len(path) :
                                   k = Len(path) \/ (k > 0 /\ path[k + 1] = "/")}}

Makedirs(files, path) ==
    [q \in DOMAIN files \cup Ancestors(path) |->
        IF q \in DOMAIN files THEN files[q] ELSE Dir]

WriteFile(files, path, content) == (path :> content) @@ files

\* MainOutput without abspath: the directory as the argument spells it
MainOutput_no_abspath(context_binary, output) ==
    PathJoin3(PathDirname(context_binary), output, s_0)

\* lines 221-222 of main: the output directory
MainOutput(context_binary, output) ==
    PathJoin3(PathDirname(PathAbspath(context_binary)), output, s_0)

\* line 227 of main
MainOutputFilename(output) == PathJoin2(output, s_model_json)

\* where cp leaves the binary: f"cp {context_binary} {output}/"
CopyTarget(context_binary, output) ==
    PathJoin2(output \o <<"/">>, PathBasename(context_binary))

(***************************************************************************)
(* Inputs.                                                                 *)
(***************************************************************************)
\* context_binary arguments: the path of the specification's scenario, and
\* a relative path that abspath has to normalise
Binaries ==
    {<<"/","o","u","t","/","m","o","d","e","l",".","b","i","n">>,
     <<"m","/",".",".","/","n",".","b">>}

\* --output values of main
OutputNames == {s_waterdrop, <<"w","d">>}

\* spellings handed to Dtype: the aliases, canonical names, names numpy
\* knows under another spelling, and spellings numpy does not know
DtypeSpellings ==
    {s_fp32, s_fp16, s_fp64, s_str, s_string, s_float32, s_float16, s_float64,
     s_int8, s_f4, s_unknown, s_FP32, <<>>, <<"f","4",",","#">>}

DtypeArgs ==
    {PyStr(x) : x \in DtypeSpellings} \cup {NpType(s_float32), NpType(s_int8)}

\* every way of writing s with each letter in either case
CaseVariants(s) ==
    {v \in [1..Len(s) -> {Lower[i] : i \in 1..Len(Lower)}
                         \cup {Upper[i] : i \in 1..Len(Upper)}] :
        \A i \in 1..Len(s) : UpperChar(v[i]) = s[i]}

MixedCase(s) ==
    [i \in 1..Len(s) |->
        IF i % 2 = 0 /\ (\E k \in 1..Len(Upper) : Upper[k] = s[i])
        THEN Lower[CHOOSE k \in 1..Len(Upper) : Upper[k] = s[i]]
        ELSE s[i]]

RuntimeSpellings ==
    CaseVariants(s_HTP) \cup CaseVariants(s_CPU) \cup CaseVariants(s_GPU)
    \cup RuntimeEnum \cup {MixedCase(r) : r \in RuntimeEnum}
    \cup {<<"n","p","u">>, <<>>, <<"h","t","p"," ">>,
          <<"H","T","P","_","F","I","X","E","D","8">>, <<"D","S","P">>}

\* runtime arguments of to_json: a str, or a list of at most MaxRuntimes
ListRuntimes == {<<"G","p","u">>, <<"n","p","u">>}

ToJsonRuntimes ==
    {[isstr |-> TRUE, v |-> r] : r \in {s_cpu, s_HTP, <<"n","p","u">>}}
    \cup {[isstr |-> FALSE, l |-> l] :
            l \in UNION {[1..n -> ListRuntimes] : n \in 0..MaxRuntimes}}

AliasLists == {<<>>, <<"x">>, <<"x", "y">>}

\* output_filename arguments of a direct to_json call
OutputFiles ==
    {<<"/","o","u","t","/","w","a","t","e","r","d","r","o","p","/","0","/",
       "m","o","d","e","l",".","j","s","o","n">>,
     <<"/","t","m","p","/","c",".","j","s","o","n">>}

\* **custom_model_info of a direct to_json call: keys that are not parameters
\* of to_json, some of them keys of the assembled record
CustomInfos ==
    {<<>>,
     "engine_type" :> <<"t","r","t">>,
     "note" :> <<"n">>,
     ("input" :> <<>>) @@ ("note" :> <<"n">>),
     ("path_to_zoo" :> <<"z","o","o">>)
        @@ ("specific_config" :>
               [runtime_order |-> <<>>, enable_dynamic_runtime |-> TRUE])}

\* the defaults of to_json's parameters (lines 169-175)
DefaultArgs ==
    [runtime |-> [isstr |-> TRUE, v |-> s_cpu],
     model_name |-> <<>>,
     model_path |-> <<>>,
     input_alias_names |-> <<>>,
     output_alias_names |-> <<>>,
     output_filename |-> <<>>,
     enable_dynamic_runtime |-> FALSE,
     custom |-> <<>>]

\* With(k, vs): the calls that give argument k a value of vs and leave the
\* other arguments at their defaults
With(k, vs) == {[DefaultArgs EXCEPT ![k] = v] : v \in vs}

\* the direct calls of to_json the model makes: every output_filename, with
\* one more argument given, or both alias lists
ToJsonArgs ==
    LET others ==
            With("runtime", ToJsonRuntimes)
            \cup With("model_name", {<<<<>>>>, <<<<"m">>>>})
            \cup With("model_path", {<<<<"z">>>>})
            \cup With("input_alias_names", {<<l>> : l \in AliasLists})
            \cup With("output_alias_names", {<<l>> : l \in AliasLists})
            \cup {[DefaultArgs EXCEPT !.input_alias_names = <<<<"x">>>>,
                                      !.output_alias_names = <<<<"y">>>>]}
            \cup With("enable_dynamic_runtime", {TRUE})
            \cup With("custom", CustomInfos)
    IN  {[a EXCEPT !.output_filename = f] :
            a \in others,
            f \in {<<>>, <<<<>>>>} \cup {<<q>> : q \in OutputFiles}}

\* lines 228-231: the call main makes
MainToJsonArgs(output_filename) ==
    [DefaultArgs EXCEPT !.runtime = [isstr |-> TRUE, v |-> s_HTP],
                        !.output_filename = <<output_filename>>]

(***************************************************************************)
(* The file system a run starts in: only /tmp, or what an earlier          *)
(* successful run of main (on the metadata of the specification's          *)
(* end-to-end scenario, with the default output name) left behind.         *)
(***************************************************************************)
BaseFS == <<"/","t","m","p">> :> Dir

ExampleDoc ==
    [status |-> "ok",
     cpp |-> <<<<"/","x","/","f","o","o",".","c","p","p">>>>,
     tensors |-> <<<<[name |-> "a", type |-> 0, dims |-> DimsOf["a"],
                      data_type |-> DataTypeOf["a"]],
                     [name |-> "b", type |-> 1, dims |-> DimsOf["b"],
                      data_type |-> DataTypeOf["b"]]>>>>]

EarlierRun(context_binary) ==
    LET output == MainOutput(context_binary, s_waterdrop)
        self == QNNModelInfoInit(ExampleDoc, context_binary).val
        text == ToJsonAssemble(self, MainToJsonArgs(MainOutputFilename(output))).val
    IN  WriteFile(WriteFile(Makedirs(BaseFS, output),
                            CopyTarget(context_binary, output),
                            BinaryOf(context_binary)),
                  MainOutputFilename(output), text)

InitialFS == {BaseFS} \cup {EarlierRun(b) : b \in Binaries}

\* the library caller's model file, and the metadata documents it loads
LibBinary == <<"/","o","u","t","/","m","o","d","e","l",".","b","i","n">>

LibDocs == {d \in Docs : d.status = "ok" => d.cpp \in {<<>>, ExampleDoc.cpp}}

LibInitialFS == {BaseFS, EarlierRun(LibBinary)}

NoDoc == [status |-> "none", cpp |-> <<>>, tensors |-> <<>>]

(***************************************************************************)
(* State.                                                                  *)
(*   pc         where the process is                                       *)
(*   op         the entry point it runs                                    *)
(*   argv       main's (or the library caller's) context_binary and output *)
(*   metadata   the document in the metadata file                          *)
(*   fs0, fs    the file system when the process started, and now          *)
(*   output     main's local output (the directory), once computed         *)
(*   cp_status  the exit status of the cp command (main discards it)       *)
(*   model      the QNNModelInfo object, once constructed                  *)
(*   call       the arguments of the to_json call, once made               *)
(*   json_str   to_json's local json_str, once assembled                   *)
(*   arg        the argument of a Dtype or QNNRuntime constructor          *)
(*   ret        the values returned so far, by name                        *)
(*   exc        the exception that ended the process, or None              *)
(***************************************************************************)
VARIABLES pc, op, argv, metadata, fs0, fs, output, cp_status, model, call,
          json_str, arg, ret, exc

vars == <<pc, op, argv, metadata, fs0, fs, output, cp_status, model, call,
          json_str, arg, ret, exc>>

\* a process that has not started, in file system files
Fresh(files) ==
    /\ pc = "idle"
    /\ op = "none"
    /\ argv = [context_binary |-> <<>>, output |-> <<>>]
    /\ metadata = NoDoc
    /\ fs0 = files
    /\ fs = files
    /\ output = <<>>
    /\ cp_status = "not_run"
    /\ model = <<>>
    /\ call = <<>>
    /\ json_str = <<>>
    /\ arg = <<>>
    /\ ret = <<>>
    /\ exc = None

\* a process that uses the classes as a library
Init == \E files \in LibInitialFS : Fresh(files)

\* a process that runs the script
InitMain == \E files \in InitialFS : Fresh(files)

\* an exception nobody catches ends the process
Raise(e) == pc' = "error" /\ exc' = e

(***************************************************************************)
(* main                                                                    *)
(***************************************************************************)
\* main loading the metadata first and preparing the directory afterwards
MainAfter_load_first(at) ==
    CASE at = "start" -> "load"
      [] at = "load" -> "makedirs"
      [] at = "makedirs" -> "copy"
      [] at = "copy" -> "to_json"
      [] at = "to_json" -> "assemble"
      [] at = "returned" -> "done"

\* the order of main's statements
MainAfter(at) ==
    CASE at = "start" -> "makedirs"
      [] at = "makedirs" -> "copy"
      [] at = "copy" -> "load"
      [] at = "load" -> "to_json"
      [] at = "to_json" -> "assemble"
      [] at = "returned" -> "done"

\* lines 215-222: main is entered with its arguments and computes output
MainStart(doc, context_binary, out) ==
    /\ pc = "idle"
    /\ op' = "main"
    /\ argv' = [context_binary |-> context_binary, output |-> out]
    /\ metadata' = doc
    /\ output' = <<MainOutput(context_binary, out)>>
    /\ pc' = MainAfter("start")
    /\ UNCHANGED <<fs0, fs, cp_status, model, call, json_str, arg, ret, exc>>

\* line 223: os.makedirs(output, exist_ok=True)
MainMakedirs ==
    /\ pc = "makedirs"
    /\ \/ /\ fs' = Makedirs(fs, output[1])
          /\ pc' = MainAfter("makedirs")
          /\ exc' = exc
       \/ /\ Raise("OSError")
          /\ fs' = fs
    /\ UNCHANGED <<op, argv, metadata, fs0, output, cp_status, model, call,
                   json_str, arg, ret>>

\* line 224: os.system(f"cp {context_binary} {output}/"); the status is dropped
MainCopy ==
    /\ pc = "copy"
    /\ \/ /\ cp_status' = "ok"
          /\ fs' = WriteFile(fs, CopyTarget(argv.context_binary, output[1]),
                             BinaryOf(argv.context_binary))
       \/ /\ cp_status' = "failed"
          /\ fs' = fs
    /\ pc' = MainAfter("copy")
    /\ UNCHANGED <<op, argv, metadata, fs0, output, model, call, json_str,
                   arg, ret, exc>>

\* line 226: model = QNNModelInfo(model_net_json, context_binary)
MainLoad ==
    /\ pc = "load"
    /\ LET m == QNNModelInfoInit(metadata, argv.context_binary)
       IN  IF m.exc # None
           THEN Raise(m.exc) /\ model' = model
           ELSE model' = <<m.val>> /\ pc' = MainAfter("load") /\ exc' = exc
    /\ UNCHANGED <<op, argv, metadata, fs0, fs, output, cp_status, call,
                   json_str, arg, ret>>

\* lines 227-231: model.to_json(runtime="HTP", output_filename=...)
MainToJson ==
    /\ pc = "to_json"
    /\ call' = <<MainToJsonArgs(MainOutputFilename(output[1]))>>
    /\ pc' = MainAfter("to_json")
    /\ UNCHANGED <<op, argv, metadata, fs0, fs, output, cp_status, model,
                   json_str, arg, ret, exc>>

\* line 232: typer.echo
MainEcho ==
    /\ pc = "returned"
    /\ op = "main"
    /\ pc' = MainAfter("returned")
    /\ UNCHANGED <<op, argv, metadata, fs0, fs, output, cp_status, model, call,
                   json_str, arg, ret, exc>>

(***************************************************************************)
(* QNNModelInfo used as a library                                          *)
(***************************************************************************)
\* QNNModelInfo(json_file, model_file)
LibNew(doc, context_binary) ==
    /\ pc = "idle"
    /\ op' = "lib"
    /\ argv' = [context_binary |-> context_binary, output |-> <<>>]
    /\ metadata' = doc
    /\ LET m == QNNModelInfoInit(doc, context_binary)
       IN  IF m.exc # None
           THEN Raise(m.exc) /\ model' = model
           ELSE model' = <<m.val>> /\ pc' = "loaded" /\ exc' = exc
    /\ UNCHANGED <<fs0, fs, output, cp_status, call, json_str, arg, ret>>

\* a call of get_input_infos or get_output_infos that is stored under name
CallGetInfos(name, infos) ==
    /\ pc = "loaded"
    /\ op' = name
    /\ IF infos.exc # None
       THEN Raise(infos.exc) /\ ret' = ret
       ELSE ret' = (name :> infos.val) /\ pc' = "done" /\ exc' = exc
    /\ UNCHANGED <<argv, metadata, fs0, fs, output, cp_status, model, call,
                   json_str, arg>>

CallGetInputInfos == CallGetInfos("get_input_infos", get_input_infos(model[1]))

CallGetOutputInfos == CallGetInfos("get_output_infos", get_output_infos(model[1]))

\* model.to_json(...) with arguments a
CallToJson(a) ==
    /\ pc = "loaded"
    /\ op' = "to_json"
    /\ call' = <<a>>
    /\ pc' = "assemble"
    /\ UNCHANGED <<argv, metadata, fs0, fs, output, cp_status, model, json_str,
                   arg, ret, exc>>

(***************************************************************************)
(* to_json, for main and for the library caller                            *)
(***************************************************************************)
\* lines 177-208
ToJsonBuild ==
    /\ pc = "assemble"
    /\ LET r == ToJsonAssemble(model[1], call[1])
       IN  IF r.exc # None
           THEN Raise(r.exc) /\ json_str' = json_str
           ELSE json_str' = <<r.val>> /\ pc' = "emit" /\ exc' = exc
    /\ UNCHANGED <<op, argv, metadata, fs0, fs, output, cp_status, model, call,
                   arg, ret>>

\* lines 209-212: open(output_filename, 'w') fails, or truncates the file and
\* the write then fails or succeeds
ToJsonEmit ==
    /\ pc = "emit"
    /\ IF WritesFile(call[1])
       THEN LET path == call[1].output_filename[1]
            IN  \/ /\ PathDirname(path) \in DOMAIN fs
                   /\ fs[PathDirname(path)] = Dir
                   /\ fs' = WriteFile(fs, path, json_str[1])
                   /\ ret' = ("json_str" :> json_str[1])
                   /\ pc' = "returned"
                   /\ exc' = exc
                \/ /\ Raise("OSError")
                   /\ UNCHANGED <<fs, ret>>
                \/ /\ PathDirname(path) \in DOMAIN fs
                   /\ fs[PathDirname(path)] = Dir
                   /\ fs' = WriteFile(fs, path, Truncated)
                   /\ Raise("OSError")
                   /\ ret' = ret
       ELSE /\ ret' = ("json_str" :> json_str[1])
            /\ pc' = "returned"
            /\ UNCHANGED <<fs, exc>>
    /\ UNCHANGED <<op, argv, metadata, fs0, output, cp_status, model, call,
                   json_str, arg>>

(***************************************************************************)
(* Dtype and QNNRuntime objects                                            *)
(***************************************************************************)
\* Dtype(x)
DtypeNew(x) ==
    /\ pc = "idle"
    /\ op' = "Dtype"
    /\ arg' = x
    /\ LET d == DtypeInit(x)
       IN  IF d.exc # None
           THEN Raise(d.exc) /\ ret' = ret
           ELSE ret' = ("self" :> d.val) /\ pc' = "object" /\ exc' = exc
    /\ UNCHANGED <<argv, metadata, fs0, fs, output, cp_status, model, call,
                   json_str>>

\* a method of the Dtype object is called and its result kept under name
DtypeCall(name, value) ==
    /\ pc = "object"
    /\ op = "Dtype"
    /\ name \notin DOMAIN ret
    /\ ret' = (name :> value) @@ ret
    /\ UNCHANGED <<pc, op, argv, metadata, fs0, fs, output, cp_status, model,
                   call, json_str, arg, exc>>

CallStr == DtypeCall("str", DtypeStr(ret["self"]))

CallShortStr == DtypeCall("short_str", DtypeShortStr(ret["self"]))

CallEncodingType == DtypeCall("encoding_type", DtypeEncodingType(ret["self"]))

\* Dtype(str(self)): the canonical spelling normalised again
CallRenormalize == DtypeCall("again", DtypeInit(PyStr(DtypeStr(ret["self"]))))

\* str(QNNRuntime(r))
QNNRuntimeNew(r) ==
    /\ pc = "idle"
    /\ op' = "QNNRuntime"
    /\ arg' = r
    /\ LET n == QNNRuntimeInit(r)
       IN  IF n.exc # None
           THEN Raise(n.exc) /\ ret' = ret
           ELSE ret' = ("runtime" :> n.val) /\ pc' = "done" /\ exc' = exc
    /\ UNCHANGED <<argv, metadata, fs0, fs, output, cp_status, model, call,
                   json_str>>

\* the classes used as a library
Next ==
    \/ \E doc \in LibDocs : LibNew(doc, LibBinary)
    \/ CallGetInputInfos
    \/ CallGetOutputInfos
    \/ \E a \in ToJsonArgs : CallToJson(a)
    \/ ToJsonBuild
    \/ ToJsonEmit
    \/ \E x \in DtypeArgs : DtypeNew(x)
    \/ CallStr
    \/ CallShortStr
    \/ CallEncodingType
    \/ CallRenormalize
    \/ \E r \in RuntimeSpellings : QNNRuntimeNew(r)

Spec == Init /\ [][Next]_vars

\* the script run from the command line
NextMain ==
    \/ \E doc \in Docs, b \in Binaries, out \in OutputNames : MainStart(doc, b, out)
    \/ MainMakedirs
    \/ MainCopy
    \/ MainLoad
    \/ MainToJson
    \/ ToJsonBuild
    \/ ToJsonEmit
    \/ MainEcho

SpecMain == InitMain /\ [][NextMain]_vars

(***************************************************************************)
(* Vocabulary of the properties, stated without the operators above.       *)
(***************************************************************************)
\* the declared tensors of the loaded document, and the places of one type
Declared == metadata.tensors[1]

Places(type) == {i \in 1..Len(Declared) : Declared[i].type = type}

\* the k-th place of S in increasing order
Nth(S, k) == CHOOSE i \in S : Cardinality({j \in S : j < i}) = k - 1

\* the names the runtime enumeration accepts, and what each stands for
Shorthand == {<<s_HTP, s_HTP_FIXED8_TF>>, <<s_CPU, s_CPU_FLOAT32>>,
              <<s_GPU, s_GPU_FLOAT16>>}

Recognized(r) ==
    \E n \in {s_HTP_FIXED8_TF, s_CPU_FLOAT32, s_GPU_FLOAT16, s_HTP, s_CPU, s_GPU} :
        /\ Len(n) = Len(r)
        /\ \A i \in 1..Len(r) : r[i] = n[i] \/ UpperChar(r[i]) = n[i]

\* n is what r stands for, whatever the case of r's letters
StandsFor(r, n) ==
    /\ n \in {s_HTP_FIXED8_TF, s_CPU_FLOAT32, s_GPU_FLOAT16}
    /\ \E full \in {n} \cup {sh[1] : sh \in {x \in Shorthand : x[2] = n}} :
          /\ Len(full) = Len(r)
          /\ \A i \in 1..Len(r) : UpperChar(r[i]) = full[i]

\* the runtimes supplied to the to_json call, as a list
Supplied == IF call[1].runtime.isstr THEN <<call[1].runtime.v>> ELSE call[1].runtime.l

\* to_json has assembled its record
Assembled == pc \in {"emit", "returned", "done"} /\ json_str # <<>>

Record == json_str[1].doc

Custom == call[1].custom

\* an output path was given to to_json (the empty string names no file)
PathGiven == call[1].output_filename \notin {<<>>, <<<<>>>>}

GivenPath == call[1].output_filename[1]

(***************************************************************************)
(* C4: get_input_infos returns exactly the type-0 tensors and              *)
(* get_output_infos exactly the type-1 tensors of the metadata, in         *)
(* declaration order, each with its name, its dims as shape and the        *)
(* datatype float32, whatever else the metadata declares.                  *)
(***************************************************************************)
Extracted(infos, type) ==
    /\ Len(infos) = Cardinality(Places(type))
    /\ \A k \in 1..Len(infos) :
          /\ infos[k].name = Declared[Nth(Places(type), k)].name
          /\ infos[k].shape = Declared[Nth(Places(type), k)].dims
          /\ infos[k].dtype = [dtype |-> NpDtypeObj(s_float32)]

C4_Extraction ==
    /\ (op = "get_input_infos" /\ pc = "done")
          => Extracted(ret["get_input_infos"], 0)
    /\ (op = "get_output_infos" /\ pc = "done")
          => Extracted(ret["get_output_infos"], 1)

\* get_output_infos has returned the one type-1 tensor of a document that
\* declares it after a tensor of another type
C4_Witness ==
    /\ op = "get_output_infos"
    /\ pc = "done"
    /\ Len(Declared) = 2
    /\ Declared[1].type = 0
    /\ Declared[2].type = 1
    /\ Len(ret["get_output_infos"]) = 1
    /\ ret["get_output_infos"][1].name = Declared[2].name

BadRuntime == \E i \in 1..Len(Supplied) : ~Recognized(Supplied[i])

C3_UnknownRuntimeFails ==
    (op = "to_json" /\ call # <<>> /\ BadRuntime) =>
        /\ pc \in {"assemble", "error"}
        /\ pc = "error" => exc # None
        /\ fs = fs0
        /\ ret = <<>>

\* the call has failed on a list whose second runtime is unknown, with an
\* output path given at which an earlier run had left a file
C3_Witness ==
    /\ op = "to_json"
    /\ call # <<>>
    /\ pc = "error"
    /\ exc = "ValueError"
    /\ Len(Supplied) = 2
    /\ Recognized(Supplied[1])
    /\ ~Recognized(Supplied[2])
    /\ PathGiven
    /\ GivenPath \in DOMAIN fs0

(***************************************************************************)
(* C5: with no alias list for a side, every tensor's alias_name is its own *)
(* name; with an alias list, the i-th tensor gets the i-th alias; with an  *)
(* alias list shorter than the side's tensor list the call fails and no    *)
(* record is returned or written.                                          *)
(***************************************************************************)
Paired(entries, alias_names) ==
    \A i \in 1..Len(entries) :
        entries[i].alias_name =
            IF alias_names = <<>> THEN entries[i].name ELSE alias_names[1][i]

TooShort(alias_names, type) ==
    alias_names # <<>> /\ Len(alias_names[1]) < Cardinality(Places(type))

C5_AliasPairing ==
    (op = "to_json" /\ call # <<>>) =>
        /\ (Assembled /\ "input" \notin DOMAIN Custom) =>
              /\ Len(Record["input"]) = Cardinality(Places(0))
              /\ Paired(Record["input"], call[1].input_alias_names)
        /\ (Assembled /\ "output" \notin DOMAIN Custom) =>
              /\ Len(Record["output"]) = Cardinality(Places(1))
              /\ Paired(Record["output"], call[1].output_alias_names)
        /\ (metadata.tensors # <<>>
            /\ (TooShort(call[1].input_alias_names, 0)
                \/ TooShort(call[1].output_alias_names, 1))) =>
              /\ pc \in {"assemble", "error"}
              /\ pc = "error" => exc # None
              /\ ret = <<>>
              /\ fs = fs0

\* the call has failed with an index error: one alias for two inputs, and
\* an output path given
C5_Witness ==
    /\ op = "to_json"
    /\ pc = "error"
    /\ exc = "IndexError"
    /\ call # <<>>
    /\ call[1].input_alias_names = <<<<"x">>>>
    /\ Cardinality(Places(0)) = 2
    /\ PathGiven

(***************************************************************************)
(* C6: the caller's additional fields are merged into the record last: the *)
(* record maps every key of them to the caller's value, also a key that    *)
(* to_json assembled itself, and every assembled key the caller did not    *)
(* supply keeps its assembled value.                                       *)
(***************************************************************************)
AssembledKeys ==
    {"model_name", "path_to_zoo", "engine_type", "input", "output",
     "specific_config"}

\* the value to_json assembles under key k, for the keys whose value is a
\* string or the configuration block
KeepsAssembled(k) ==
    CASE k = "engine_type" -> Record[k] = s_qnn
      [] k = "model_name" ->
            Record[k] = IF call[1].model_name \in {<<>>, <<<<>>>>}
                        THEN model[1].model_name
                        ELSE call[1].model_name[1]
      [] k = "path_to_zoo" ->
            \/ call[1].model_path # <<>> /\ Record[k] = call[1].model_path[1]
            \/ /\ call[1].model_path = <<>>
               /\ Len(Record[k]) <= Len(LibBinary)
               /\ Record[k] = SubSeq(LibBinary, Len(LibBinary) - Len(Record[k]) + 1,
                                     Len(LibBinary))
               /\ \A i \in 1..Len(Record[k]) : Record[k][i] # "/"
               /\ LibBinary[Len(LibBinary) - Len(Record[k])] = "/"
      [] k = "input" -> Len(Record[k]) = Cardinality(Places(0))
      [] k = "output" -> Len(Record[k]) = Cardinality(Places(1))
      [] k = "specific_config" ->
            /\ Record[k].enable_dynamic_runtime = call[1].enable_dynamic_runtime
            /\ Len(Record[k].runtime_order) = Len(Supplied)

C7_Emission ==
    (op = "to_json" /\ pc = "returned") =>
        /\ DOMAIN ret = {"json_str"}
        /\ ret["json_str"].kind = "text"
        /\ ret["json_str"].doc = Record
        /\ PathGiven =>
              /\ DOMAIN fs = DOMAIN fs0 \cup {GivenPath}
              /\ fs[GivenPath] = ret["json_str"]
              /\ \A q \in DOMAIN fs0 \ {GivenPath} : fs[q] = fs0[q]
        /\ ~PathGiven => fs = fs0

\* the call has returned after replacing the file an earlier run had left at
\* the given path, next to the binary that run had copied
C7_Witness ==
    /\ op = "to_json"
    /\ pc = "returned"
    /\ PathGiven
    /\ GivenPath \in DOMAIN fs0
    /\ fs0[GivenPath] # ret["json_str"]
    /\ fs[GivenPath] = ret["json_str"]
    /\ \E q \in DOMAIN fs0 : fs0[q].kind = "bin" /\ fs[q] = fs0[q]

(***************************************************************************)
(* Vocabulary of the pipeline's properties.                                *)
(***************************************************************************)
\* b is the last component of path p
LastComponent(b, p) ==
    /\ Len(b) <= Len(p)
    /\ b = SubSeq(p, Len(p) - Len(b) + 1, Len(p))
    /\ \A i \in 1..Len(b) : b[i] # "/"
    /\ Len(b) < Len(p) => p[Len(p) - Len(b)] = "/"

\* n is file name b without its extension: b is n followed by nothing or by
\* a dot and dot-free characters, the extension being the last one b has
\* (a name made of leading dots only has none)
Stem(n, b) ==
    LET e == SubSeq(b, Len(n) + 1, Len(b))
        dotted == \E i \in 1..Len(n) : n[i] # "."
    IN  /\ Len(n) <= Len(b)
        /\ n = SubSeq(b, 1, Len(n))
        /\ \/ /\ e # <<>>
              /\ e[1] = "."
              /\ \A i \in 2..Len(e) : e[i] # "."
              /\ dotted
           \/ /\ e = <<>>
              /\ \A i, j \in 1..Len(b) : (i < j /\ b[i] # ".") => b[j] # "."

\* the directory main writes into, spelt out for the inputs of the model:
\* the binary's absolute directory, the output name, "0"
ExpectedDir ==
    (IF argv.context_binary = <<"/","o","u","t","/","m","o","d","e","l",".","b","i","n">>
     THEN <<"/","o","u","t">>
     ELSE <<"/","w">>)
    \o <<"/">> \o argv.output \o <<"/", "0">>

ExpectedFile == ExpectedDir \o <<"/">> \o s_model_json

\* entries lists the declared tensors of one type, in order, each with its
\* name, dims, FP32 and its own name as alias
Lists(entries, type) ==
    /\ Len(entries) = Cardinality(Places(type))
    /\ \A k \in 1..Len(entries) :
          entries[k] = [name |-> Declared[Nth(Places(type), k)].name,
                        shape |-> Declared[Nth(Places(type), k)].dims,
                        encoding_type |-> s_FP32,
                        alias_name |-> Declared[Nth(Places(type), k)].name]

\* the failures of the steps after the copy that the metadata causes
MetadataFailure ==
    pc = "error" /\ exc \in {"FileNotFoundError", "JSONDecodeError", "KeyError"}

(***************************************************************************)
(* C1: a successful run of main with the default output name writes        *)
(* exactly one configuration file, <dirname(abspath(B))>/waterdrop/0/      *)
(* model.json, whose record has model_name = the file name of 'model.cpp'  *)
(* without directory and extension, path_to_zoo = the file name of B,      *)
(* engine_type qnn, one input per type-0 tensor and one output per type-1  *)
(* tensor (name, dims as shape, FP32, alias = name) and specific_config =  *)
(* {runtime_order: [HTP_FIXED8_TF], enable_dynamic_runtime: false}.        *)
(***************************************************************************)
C1_EndToEnd ==
    (op = "main" /\ pc = "done" /\ argv.output = s_waterdrop) =>
        /\ ExpectedFile \in DOMAIN fs
        /\ fs[ExpectedFile].kind = "text"
        /\ LET r == fs[ExpectedFile].doc
           IN  /\ DOMAIN r = {"model_name", "path_to_zoo", "engine_type", "input",
                              "output", "specific_config"}
               /\ \E b \in {SubSeq(metadata.cpp[1], i, Len(metadata.cpp[1])) :
                               i \in 1..(Len(metadata.cpp[1]) + 1)} :
                      LastComponent(b, metadata.cpp[1]) /\ Stem(r["model_name"], b)
               /\ LastComponent(r["path_to_zoo"], argv.context_binary)
               /\ r["engine_type"] = s_qnn
               /\ Lists(r["input"], 0)
               /\ Lists(r["output"], 1)
               /\ r["specific_config"] =
                      [runtime_order |-> <<s_HTP_FIXED8_TF>>,
                       enable_dynamic_runtime |-> FALSE]
        /\ \A q \in DOMAIN fs \ {ExpectedFile} :
              fs[q].kind = "text" => q \in DOMAIN fs0 /\ fs0[q] = fs[q]

\* main has finished for a relative binary path and a 'model.cpp' whose file
\* name starts with a dot, in a file system with no earlier output
C1_Witness ==
    /\ op = "main"
    /\ pc = "done"
    /\ argv.output = s_waterdrop
    /\ argv.context_binary = <<"m","/",".",".","/","n",".","b">>
    /\ metadata.cpp = <<<<"a",".","b","/",".","n",".","c">>>>
    /\ fs0 = BaseFS
    /\ fs[ExpectedFile].doc["model_name"] = <<".","n">>
    /\ Len(fs[ExpectedFile].doc["input"]) = 1
    /\ Len(fs[ExpectedFile].doc["output"]) = 1

(***************************************************************************)
(* C8, as claimed: main creates the output directory and copies the binary *)
(* before it loads the metadata and before it emits model.json; the copy   *)
(* is not verified or rolled back, so when the metadata makes a later step *)
(* fail the directory and the copied binary remain while model.json is     *)
(* absent; and a failed copy does not keep model.json from being written.  *)
(***************************************************************************)
CopyBeforeLoad ==
    (op = "main" /\ (model # <<>> \/ call # <<>> \/ MetadataFailure)) =>
        /\ cp_status # "not_run"
        /\ output[1] \in DOMAIN fs
        /\ fs[output[1]] = Dir
        /\ cp_status = "ok" =>
              /\ CopyTarget(argv.context_binary, output[1]) \in DOMAIN fs
              /\ fs[CopyTarget(argv.context_binary, output[1])]
                    = BinaryOf(argv.context_binary)

WrittenDespiteCopy ==
    (op = "main" /\ pc = "done") =>
        /\ MainOutputFilename(output[1]) \in DOMAIN fs
        /\ fs[MainOutputFilename(output[1])] = ret["json_str"]

C9_AsClaimed ==
    (op = "Dtype" /\ pc = "object" /\ "encoding_type" \in DOMAIN ret) =>
        LET canonical == ret["self"].dtype.v
            tag == ret["encoding_type"]
        IN  CASE canonical = s_float32 -> tag = s_FP32
              [] canonical = s_float16 -> tag = s_FP16
              [] canonical = s_float64 -> tag = s_FP64
              [] OTHER ->
                    /\ Len(tag) = Len(canonical)
                    /\ \A i \in 1..Len(tag) : tag[i] = UpperChar(canonical[i])

(***************************************************************************)
(* C10, as claimed: Dtype never raises on a spelling: an alias gives its   *)
(* canonical type, a spelling that is not recognised is kept unchanged,    *)
(* and normalising the canonical spelling again gives the same spelling.   *)
(***************************************************************************)
CanonicalOf ==
    {<<s_fp32, s_float32>>, <<s_fp16, s_float16>>, <<s_fp64, s_float64>>,
     <<s_str, s_string>>, <<s_string, s_string>>, <<s_float32, s_float32>>,
     <<s_float16, s_float16>>, <<s_float64, s_float64>>}

C10_AsClaimed ==
    (op = "Dtype" /\ arg.t = "str") =>
        /\ pc # "error"
        /\ \A c \in CanonicalOf : arg.v = c[1] => ret["self"].dtype.v = c[2]
        /\ "again" \in DOMAIN ret =>
              /\ ret["again"].exc = None
              /\ ret["again"].val.dtype.v = ret["self"].dtype.v
=============================================================================
